---------------------------- MODULE Spec2Model ----------------------------
(***************************************************************************)
(* Model of the candidate-scoring pipeline of the recruiter portal         *)
(* (src/app.py, src/utils/resume_parser.py): skill extraction from the job *)
(* description, recruiter-weighted ("explicit") scoring, the five-factor   *)
(* composite scoring, and the ranking of the analysed batch.               *)
(*                                                                         *)
(* Texts are TLA+ strings; a character is a string of length one.  Scores  *)
(* are IEEE-754 binary64 values, as Python floats are: a float is a record *)
(* [m, e] standing for m * 2^e, where m is a natural number of exactly 53  *)
(* bits (or zero) kept as a little-endian sequence of 15-bit limbs, and    *)
(* every arithmetic step rounds to nearest, ties to even.                  *)
(***************************************************************************)
EXTENDS Integers, Sequences, FiniteSets, TLC

(***************************************************************************)
(* Natural numbers of arbitrary size: little-endian limbs, no leading zero *)
(* limb, zero is << >>.                                                    *)
(***************************************************************************)
Base == 2^15

RECURSIVE BNorm(_)
BNorm(a) ==
    IF a = << >> THEN << >>
    ELSE IF a[Len(a)] = 0 THEN BNorm(SubSeq(a, 1, Len(a) - 1)) ELSE a

RECURSIVE BFrom(_)
BFrom(n) == IF n = 0 THEN << >> ELSE <<n % Base>> \o BFrom(n \div Base)

RECURSIVE BAddC(_, _, _)
BAddC(a, b, c) ==
    IF a = << >> /\ b = << >>
    THEN (IF c = 0 THEN << >> ELSE <<c>>)
    ELSE LET x == IF a = << >> THEN 0 ELSE Head(a)
             y == IF b = << >> THEN 0 ELSE Head(b)
             s == x + y + c
         IN  <<s % Base>> \o
             BAddC(IF a = << >> THEN << >> ELSE Tail(a),
                   IF b = << >> THEN << >> ELSE Tail(b), s \div Base)

BAdd(a, b) == BAddC(a, b, 0)

RECURSIVE BMulSmallC(_, _, _)
BMulSmallC(a, k, c) ==
    IF a = << >>
    THEN (IF c = 0 THEN << >> ELSE <<c>>)
    ELSE LET s == Head(a) * k + c
         IN  <<s % Base>> \o BMulSmallC(Tail(a), k, s \div Base)

\* a * k for 0 <= k < Base
BMulSmall(a, k) == IF k = 0 THEN << >> ELSE BMulSmallC(a, k, 0)

RECURSIVE BMul(_, _)
BMul(a, b) ==
    IF a = << >> \/ b = << >> THEN << >>
    ELSE LET rest == BMul(a, Tail(b))
         IN  BAdd(BMulSmall(a, Head(b)),
                  IF rest = << >> THEN << >> ELSE <<0>> \o rest)

RECURSIVE Zeros(_)
Zeros(n) == IF n = 0 THEN << >> ELSE <<0>> \o Zeros(n - 1)

\* a * 2^n
BShl(a, n) ==
    IF a = << >> THEN << >>
    ELSE Zeros(n \div 15) \o BMulSmall(a, 2^(n % 15))

\* the quotient of a by d, for 0 < d <= 2 * Base, most significant limb first
RECURSIVE BDivSmallR(_, _, _)
BDivSmallR(a, d, r) ==
    IF a = << >> THEN << >>
    ELSE LET cur == r * Base + a[Len(a)]
         IN  BDivSmallR(SubSeq(a, 1, Len(a) - 1), d, cur % d) \o <<cur \div d>>

BDivSmall(a, d) == BNorm(BDivSmallR(a, d, 0))

RECURSIVE BModSmallR(_, _, _)
BModSmallR(a, d, r) ==
    IF a = << >> THEN r
    ELSE BModSmallR(SubSeq(a, 1, Len(a) - 1), d, (r * Base + a[Len(a)]) % d)

BModSmall(a, d) == BModSmallR(a, d, 0)

\* floor(a / 2^n)
BShr(a, n) ==
    LET k == n \div 15
    IN  IF k >= Len(a) THEN << >>
        ELSE BDivSmall(SubSeq(a, k + 1, Len(a)), 2^(n % 15))

RECURSIVE BitLen(_)
BitLen(n) == IF n = 0 THEN 0 ELSE 1 + BitLen(n \div 2)

\* number of significant bits of a
BBits(a) == IF a = << >> THEN 0 ELSE 15 * (Len(a) - 1) + BitLen(a[Len(a)])

\* -1, 0, 1 as a < b, a = b, a > b (both normalised)
RECURSIVE BCmp(_, _)
BCmp(a, b) ==
    IF Len(a) # Len(b) THEN (IF Len(a) < Len(b) THEN -1 ELSE 1)
    ELSE IF a = << >> THEN 0
    ELSE IF a[Len(a)] # b[Len(b)] THEN (IF a[Len(a)] < b[Len(b)] THEN -1 ELSE 1)
    ELSE BCmp(BNorm(SubSeq(a, 1, Len(a) - 1)), BNorm(SubSeq(b, 1, Len(b) - 1)))

BOdd(a) == a # << >> /\ a[1] % 2 = 1

(***************************************************************************)
(* binary64 arithmetic on non-negative values in the normal range.         *)
(***************************************************************************)
FZero == [m |-> << >>, e |-> 0]

\* (Values that are used more than once are passed as parameters: TLC
\* evaluates a parameter once and a LET definition at every use.)

\* q * 2^(e + n) with q of 53 bits, or of 54 after a carry out of the top
FRenorm(q, e, n) ==
    IF BBits(q) = 54 THEN [m |-> BShr(q, 1), e |-> e + n + 1]
    ELSE [m |-> q, e |-> e + n]

\* q is M without its n low bits: round on the bits cut off, c comparing
\* M with the midpoint between q and q + 1
FRoundCut(q, c, e, n) ==
    FRenorm(IF c = 1 \/ (c = 0 /\ BOdd(q)) THEN BAdd(q, <<1>>) ELSE q, e, n)

FRoundTo(M, e, n, q) ==
    FRoundCut(q, BCmp(M, BAdd(BShl(q, n), BShl(<<1>>, n - 1))), e, n)

FRoundBits(M, e, bits) ==
    IF bits = 0 THEN FZero
    ELSE IF bits <= 53 THEN [m |-> BShl(M, 53 - bits), e |-> e - (53 - bits)]
    ELSE FRoundTo(M, e, bits - 53, BShr(M, bits - 53))

\* M * 2^e rounded to 53 significant bits, nearest, ties to even
FRound(M, e) == FRoundBits(M, e, BBits(M))

FromInt(n) == FRound(BFrom(n), 0)

\* a / b of two natural numbers, b > 0: the quotient to 72 fractional bits
\* with a sticky bit, then rounded once
FDivNum(num, b) ==
    FRound(BAdd(BShl(BDivSmall(num, b), 1),
                IF BModSmall(num, b) = 0 THEN << >> ELSE <<1>>), -73)

FDivInt(a, b) == FDivNum(BShl(BFrom(a), 72), b)

FAdd(x, y) ==
    IF x.m = << >> THEN y
    ELSE IF y.m = << >> THEN x
    ELSE LET e0 == IF x.e < y.e THEN x.e ELSE y.e
         IN  FRound(BAdd(BShl(x.m, x.e - e0), BShl(y.m, y.e - e0)), e0)

FMul(x, y) == FRound(BMul(x.m, y.m), x.e + y.e)

\* x <= y
FLeq(x, y) ==
    IF x.m = << >> THEN TRUE
    ELSE IF y.m = << >> THEN FALSE
    ELSE IF x.e # y.e THEN x.e < y.e
    ELSE BCmp(x.m, y.m) <= 0

FLess(x, y) == FLeq(x, y) /\ x # y

FMin(x, y) == IF FLeq(y, x) THEN y ELSE x

FOne == FromInt(1)

(***************************************************************************)
(* Text helpers: Python's str and re operations on ASCII text.             *)
(***************************************************************************)
UPPER == "ABCDEFGHIJKLMNOPQRSTUVWXYZ"
LOWER == "abcdefghijklmnopqrstuvwxyz"
DIGITS == "0123456789"

CharAt(s, i) == SubSeq(s, i, i)
Chars(s) == {CharAt(s, i) : i \in 1..Len(s)}

UpperChars == Chars(UPPER)
LowerChars == Chars(LOWER)
DigitChars == Chars(DIGITS)
LetterChars == UpperChars \cup LowerChars
\* \s of the re module
SpaceChars == {" ", "\t", "\n", "\r", "\f"}

IndexIn(s, c) == CHOOSE i \in 1..Len(s) : CharAt(s, i) = c

LowerChar(c) == IF c \in UpperChars THEN CharAt(LOWER, IndexIn(UPPER, c)) ELSE c

\* str.lower()
RECURSIVE Lower(_)
Lower(s) == IF s = "" THEN "" ELSE LowerChar(Head(s)) \o Lower(Tail(s))

\* sub in s
Contains(s, sub) ==
    \E i \in 0..(Len(s) - Len(sub)) : SubSeq(s, i + 1, i + Len(sub)) = sub

\* the characters of s that are in keep, in order: re.sub of the complement
RECURSIVE Filter(_, _)
Filter(s, keep) ==
    IF s = "" THEN ""
    ELSE (IF Head(s) \in keep THEN Head(s) ELSE "") \o Filter(Tail(s), keep)

\* str.strip(chars)
RECURSIVE LStrip(_, _)
LStrip(s, cs) == IF s # "" /\ Head(s) \in cs THEN LStrip(Tail(s), cs) ELSE s

RECURSIVE RStrip(_, _)
RStrip(s, cs) ==
    IF s # "" /\ CharAt(s, Len(s)) \in cs
    THEN RStrip(SubSeq(s, 1, Len(s) - 1), cs) ELSE s

Strip(s, cs) == RStrip(LStrip(s, cs), cs)

\* re.split(r"[seps]+", s): the pieces between runs of separators; a
\* separator at either end of s leaves an empty piece there
RECURSIVE SplitRuns(_, _, _, _)
SplitRuns(s, seps, cur, inSep) ==
    IF s = "" THEN <<cur>>
    ELSE IF Head(s) \in seps
         THEN (IF inSep THEN SplitRuns(Tail(s), seps, cur, TRUE)
               ELSE <<cur>> \o SplitRuns(Tail(s), seps, "", TRUE))
         ELSE SplitRuns(Tail(s), seps, cur \o Head(s), FALSE)

Split(s, seps) == SplitRuns(s, seps, "", FALSE)

\* int(digits)
RECURSIVE ParseInt(_)
ParseInt(d) ==
    IF d = "" THEN 0
    ELSE 10 * ParseInt(SubSeq(d, 1, Len(d) - 1)) + (IndexIn(DIGITS, CharAt(d, Len(d))) - 1)

\* the first position from i on whose character is not in cs (Len(s)+1 if none)
RECURSIVE SkipWhile(_, _, _)
SkipWhile(s, i, cs) ==
    IF i <= Len(s) /\ CharAt(s, i) \in cs THEN SkipWhile(s, i + 1, cs) ELSE i

StartsAt(s, i, lit) ==
    i + Len(lit) - 1 <= Len(s) /\ SubSeq(s, i, i + Len(lit) - 1) = lit

Max(S) == CHOOSE v \in S : \A w \in S : w <= v
Min(S) == CHOOSE v \in S : \A w \in S : v <= w


(***************************************************************************)
(* Skill extraction (src/app.py).                                          *)
(***************************************************************************)
\* The entry "problem-solving" of the source is spelt with a non-ASCII
\* hyphen; no token can equal it, since a token keeps ASCII characters only.
COMMON_WORDS ==
    {"and", "or", "the", "to", "a", "an", "with", "in", "of", "for",
     "on", "as", "by", "is", "are", "be", "will", "you", "your",
     "we", "our", "they", "their", "it", "this", "that", "from",
     "years", "year", "yrs", "experience", "responsibilities", "responsibility",
     "skills", "requirements", "must", "have", "strong", "solid", "familiar",
     "familiarity", "communication", "problem", "solving",
     "team", "summary", "apply"}

\* [\s,\n\/\\]
TokenSeparators == SpaceChars \cup {",", "/", "\\"}

\* [a-zA-Z0-9.+_-]
TokenChars == LetterChars \cup DigitChars \cup {".", "+", "_", "-"}

HasDigit(tok) == \E i \in 1..Len(tok) : CharAt(tok, i) \in DigitChars

\* re.sub(r"[^a-zA-Z0-9.+_-]", "", token).strip().strip('.')
CleanToken(token) == Strip(Strip(Filter(token, TokenChars), SpaceChars), {"."})

\* the loop body of extract_job_skills over the split tokens
\* lines 54-65: what one token adds to the list
AddToken(clean, tok, tok_lower) ==
    IF \/ tok = ""
       \/ HasDigit(tok)
       \/ tok_lower \in COMMON_WORDS
       \/ \E i \in 1..Len(clean) : clean[i] = tok_lower
    THEN clean
    ELSE Append(clean, tok_lower)

AddCleaned(clean, tok) == AddToken(clean, tok, Lower(tok))

RECURSIVE CleanTokens(_, _)
CleanTokens(tokens, clean) ==
    IF tokens = << >> THEN clean
    ELSE CleanTokens(Tail(tokens), AddCleaned(clean, CleanToken(Head(tokens))))

extract_job_skills(description) ==
    CleanTokens(Split(Lower(description), TokenSeparators), << >>)

TokensIn(text_lower, job_tokens) ==
    SelectSeq(job_tokens, LAMBDA token : Contains(text_lower, token))

extract_resume_skills(resume_text, job_tokens) ==
    TokensIn(Lower(resume_text), job_tokens)

(***************************************************************************)
(* Experience and education helpers (src/app.py).                          *)
(***************************************************************************)
\* Whether a match of (\d+)\s*(?:\+)?\s*(?:years|yrs) (withPlus) or of
\* (\d+)\s*(?:years|yrs) starts at position i of s.  A match that starts
\* inside a run of digits exists only if one starts at the head of the run,
\* so the matches are counted at the heads of the runs.
UnitAt(s, l) == StartsAt(s, l, "years") \/ StartsAt(s, l, "yrs")

\* k: the position after the digits and the white space after them
UnitAfter(s, k, withPlus) ==
    UnitAt(s, IF withPlus /\ k <= Len(s) /\ CharAt(s, k) = "+"
              THEN SkipWhile(s, k + 1, SpaceChars) ELSE k)

YearsMatchAt(s, i, withPlus) ==
    /\ i <= Len(s)
    /\ CharAt(s, i) \in DigitChars
    /\ UnitAfter(s, SkipWhile(s, SkipWhile(s, i, DigitChars), SpaceChars), withPlus)

RunHead(s, i) == i = 1 \/ CharAt(s, i - 1) \notin DigitChars

\* group(1) of the match at the run head i
YearsGroup(s, i) == ParseInt(SubSeq(s, i, SkipWhile(s, i, DigitChars) - 1))

YearsMatches(s, withPlus) ==
    {i \in 1..Len(s) : RunHead(s, i) /\ YearsMatchAt(s, i, withPlus)}

FirstYears(t, ms) == IF ms = {} THEN 0 ELSE YearsGroup(t, Min(ms))

MaxYears(t, ms) == IF ms = {} THEN 0 ELSE Max({YearsGroup(t, i) : i \in ms})

\* re.search(r"(\d+)\s*(?:\+)?\s*(?:years|yrs)", description.lower())
RequiredYearsIn(t) == FirstYears(t, YearsMatches(t, TRUE))

\* re.findall(r"(\d+)\s*(?:years|yrs)", text.lower())
ResumeYearsIn(t) == MaxYears(t, YearsMatches(t, FALSE))

parse_required_years(description) == RequiredYearsIn(Lower(description))

parse_resume_years(text) == ResumeYearsIn(Lower(text))

degree_keywords ==
    {"bachelor", "bachelors", "master", "masters", "phd", "associate",
     "degree", "certification", "certificate"}

AnyIn(t, words) == \E word \in words : Contains(t, word)

has_degree(text) == AnyIn(Lower(text), degree_keywords)

\* the word list of line 350
job_degree_words == {"bachelor", "master", "degree", "certification"}

job_requires_degree_of(description) == AnyIn(Lower(description), job_degree_words)


(***************************************************************************)
(* Resume parsing (src/utils/resume_parser.py).  An uploaded file is a     *)
(* record [name, text]: text is what extract_text returns for its bytes    *)
(* (the PDF and DOCX readers are libraries outside the repository).        *)
(***************************************************************************)
extract_text(uploaded_file) == uploaded_file.text

\* [a-zA-Z0-9.+_-] and [a-zA-Z0-9._-] of EMAIL_REGEX
EmailLocalChars == LetterChars \cup DigitChars \cup {".", "+", "_", "-"}
EmailDomainChars == LetterChars \cup DigitChars \cup {".", "_", "-"}

\* the dots after the "@" at k that can be the \. of EMAIL_REGEX: inside the
\* run of domain characters, not its first character, followed by a letter
EmailDots(s, k) ==
    LET d == SkipWhile(s, k + 1, EmailDomainChars) - 1
    IN  {p \in (k + 2)..(d - 1) : CharAt(s, p) = "." /\ CharAt(s, p + 1) \in LetterChars}

\* the positions of an "@" at which EMAIL_REGEX matches
EmailAts(s) ==
    {k \in 2..Len(s) : /\ CharAt(s, k) = "@"
                       /\ CharAt(s, k - 1) \in EmailLocalChars
                       /\ EmailDots(s, k) # {}}

RECURSIVE RunStart(_, _, _)
RunStart(s, i, cs) ==
    IF i > 1 /\ CharAt(s, i - 1) \in cs THEN RunStart(s, i - 1, cs) ELSE i

\* EMAIL_REGEX.search(text).group(0): leftmost match, each part greedy
EmailAt(s, k) ==
    SubSeq(s, RunStart(s, k, EmailLocalChars),
           SkipWhile(s, Max(EmailDots(s, k)) + 1, LetterChars) - 1)

EmailSearch(s) == EmailAt(s, Min(EmailAts(s)))

\* os.path.splitext(name)[0]: up to the last dot, a leading dot apart
SplitExtStem(name) ==
    LET dots == {i \in 2..Len(name) : CharAt(name, i) = "."}
    IN  IF dots = {} THEN name ELSE SubSeq(name, 1, Max(dots) - 1)

RECURSIVE ReplaceChar(_, _, _)
ReplaceChar(s, a, b) ==
    IF s = "" THEN ""
    ELSE (IF Head(s) = a THEN b ELSE Head(s)) \o ReplaceChar(Tail(s), a, b)

ResumeRow(name, text) ==
    [Name |-> name,
     Email |-> IF EmailAts(text) # {} THEN EmailSearch(text)
               ELSE Lower(ReplaceChar(name, " ", ".")) \o "@example.com",
     ResumeText |-> text]

parse_resume(uploaded_file) ==
    ResumeRow(SplitExtStem(uploaded_file.name), extract_text(uploaded_file))

(***************************************************************************)
(* TfidfVectorizer(stop_words="english") and cosine_similarity, libraries  *)
(* outside the repository, by their contract: a document's terms are its   *)
(* lowercased runs of two or more word characters that are not stop words; *)
(* fitting raises ValueError when no document has a term; the cosine of    *)
(* two documents is 0 when they share no term, 1 when their term counts    *)
(* are proportional, and strictly between otherwise.  The value in between *)
(* depends on the logarithms of the batch's document frequencies and is    *)
(* left open: any member of InteriorSims.                                  *)
(***************************************************************************)
\* the members of scikit-learn's English stop word list among the common
\* function words
ENGLISH_STOP_WORDS ==
    {"an", "and", "or", "the", "to", "with", "in", "of", "for", "on", "as",
     "by", "is", "are", "be", "will", "you", "your", "we", "our", "they",
     "their", "it", "this", "that", "from", "must", "have", "at", "but",
     "not", "no", "if", "so", "than", "then", "was", "were", "which", "who"}

WordChars == LetterChars \cup DigitChars \cup {"_"}

RECURSIVE WordRuns(_, _)
WordRuns(s, cur) ==
    IF s = "" THEN (IF cur = "" THEN << >> ELSE <<cur>>)
    ELSE IF Head(s) \in WordChars THEN WordRuns(Tail(s), cur \o Head(s))
    ELSE (IF cur = "" THEN << >> ELSE <<cur>>) \o WordRuns(Tail(s), "")

\* the analyzer: lowercase, token_pattern (?u)\b\w\w+\b, stop words removed
Terms(doc) ==
    SelectSeq(WordRuns(Lower(doc), ""),
              LAMBDA w : Len(w) >= 2 /\ w \notin ENGLISH_STOP_WORDS)

SeqSet(q) == {q[i] : i \in DOMAIN q}

CountIn(q, w) == Cardinality({i \in DOMAIN q : q[i] = w})

\* fit_transform raises ValueError("empty vocabulary; ...")
EmptyVocabulary(docs) == \A i \in DOMAIN docs : Terms(docs[i]) = << >>

\* the term counts of the term sequences ta and tb are proportional
Proportional(ta, tb) ==
    /\ ta # << >>
    /\ SeqSet(ta) = SeqSet(tb)
    /\ \A u, v \in SeqSet(ta) :
          CountIn(ta, u) * CountIn(tb, v) = CountIn(ta, v) * CountIn(tb, u)

InteriorSims == {FDivInt(1, 4), FDivInt(3, 4)}

\* the values cosine_similarity can return for documents of these terms
CosineValues(ta, tb) ==
    IF SeqSet(ta) \cap SeqSet(tb) = {} THEN {FZero}
    ELSE IF Proportional(ta, tb) THEN {FOne}
    ELSE InteriorSims

RECURSIVE CosineRow(_, _)
CosineRow(ta, texts) ==
    IF texts = << >> THEN << >>
    ELSE <<CosineValues(ta, Terms(Head(texts)))>> \o CosineRow(ta, Tail(texts))

\* the similarity rows the batch can get: one value per resume, the same
\* value for the same text
SimilaritiesIn(allowed, texts) ==
    {sim \in [DOMAIN texts -> InteriorSims \cup {FZero, FOne}] :
        /\ \A i \in DOMAIN texts : sim[i] \in allowed[i]
        /\ \A i, j \in DOMAIN texts : texts[i] = texts[j] => sim[i] = sim[j]}

Similarities(doc, texts) == SimilaritiesIn(CosineRow(Terms(doc), texts), texts)

(***************************************************************************)
(* The session: the session state and the widget values that the pages    *)
(* read and write.                                                         *)
(***************************************************************************)
VARIABLES
    jobs_df,      \* st.session_state.jobs_df: rows [Title, Description, Location]
    job_idx,      \* the selected row of jobs_df
    skills_list,  \* st.session_state.skills_list: rows [skill, weight]
    req_exp,      \* the "Required years of experience" number input
    files,        \* the resume uploader's files
    analysis_df,  \* st.session_state.analysis_df, << >> while the key is absent
    run,          \* the locals of the last "Analyse Resumes" run
    exc,          \* the exception the last script run ended with, or "none"
    cosine,       \* what cosine_similarity returned for this job and batch
    page,         \* the sidebar radio
    status_df,    \* st.session_state.status_df: rows [Email, Status, Job]
    uploaded,     \* the "Upload jobs.csv" uploader: << >> or <<[rows, read]>>
    rerun,        \* TRUE while a run asked for by st.experimental_rerun() is due
    posted,       \* history: the job rows the recruiter has added, in order
    ranked_for    \* history: the title of the job analysis_df was computed for

vars ==
    <<jobs_df, job_idx, skills_list, req_exp, files, analysis_df, run, exc, cosine,
      page, status_df, uploaded, rerun, posted, ranked_for>>

Pages == {"Post Job (Form)", "View & Import Jobs", "Analyse & Email Candidates", "Dashboard"}

\* the most files one upload holds
MaxFiles == 2

\* data/jobs.csv as the session loads it
JobRows ==
    << [Title |-> "Backend Developer",
        Description |-> "Python SQL 3+ years bachelor required",
        Location |-> "Remote"],
       [Title |-> "Python", Description |-> "Python", Location |-> ""],
       [Title |-> "IT", Description |-> "PhD, html5 and CI&CD", Location |-> "Berlin"],
       [Title |-> "Developer", Description |-> "Strong communication skills",
        Location |-> "Remote"] >>

ResumeFiles ==
    { [name |-> "A.pdf",
       text |-> "Experienced Python developer, 5 years, Bachelor of Science"],
      [name |-> "B.pdf", text |-> "Java developer, 1 year"],
      [name |-> "E.docx", text |-> ""],
      [name |-> "P.pdf", text |-> "Python"],
      [name |-> "Jo Roe.pdf",
       text |-> "jo.roe@mail.example.org\nPython/SQL developer with 5+ years"] }

\* what the recruiter can have typed into the skill rows; the first is the
\* list a new session starts with
SkillLists ==
    { << [skill |-> "", weight |-> 1] >>,
      << [skill |-> "Python", weight |-> 2], [skill |-> "java", weight |-> 3],
         [skill |-> "developer", weight |-> 5] >>,
      << [skill |-> "python", weight |-> 1], [skill |-> "", weight |-> 1],
         [skill |-> " Python ", weight |-> 1] >>,
      << [skill |-> " ", weight |-> 1], [skill |-> "sql", weight |-> 1] >>,
      << [skill |-> "python", weight |-> 2], [skill |-> "sql", weight |-> 4],
         [skill |-> "developer", weight |-> 3], [skill |-> "years", weight |-> 1] >> }

\* the values of the number input that are tried
ReqExpInputs == {0, 4}

RECURSIVE SeqsUpTo(_, _)
SeqsUpTo(S, n) ==
    IF n = 0 THEN {<< >>}
    ELSE LET shorter == SeqsUpTo(S, n - 1)
         IN  shorter \cup {Append(q, v) : q \in shorter, v \in S}

NoRun == [mode |-> "none"]

\* cosine_similarity is a function of its arguments: the values it returned
\* in the first run are the values every later run on the same job and
\* batch gets.  NoCosine: it has not been called yet.
NoCosine == [called |-> FALSE]

Init ==
    /\ jobs_df = JobRows
    /\ job_idx \in DOMAIN JobRows
    /\ skills_list \in SkillLists
    /\ req_exp \in ReqExpInputs
    /\ files \in SeqsUpTo(ResumeFiles, MaxFiles)
    /\ analysis_df = << >>
    /\ run = NoRun
    /\ exc = "none"
    /\ cosine = NoCosine
    /\ page = "Analyse & Email Candidates"
    /\ status_df = << >>
    /\ uploaded = << >>
    /\ rerun = FALSE
    /\ posted = << >>
    /\ ranked_for = ""


(***************************************************************************)
(* The "Analyse Resumes" handler (src/app.py, lines 289-402).              *)
(***************************************************************************)
\* lines 301-306: the rows whose skill field is not empty, stripped and
\* lowercased, in row order
SkillEntries(list) == SelectSeq(list, LAMBDA entry : entry.skill # "")

RECURSIVE StripLower(_)
StripLower(entries) ==
    IF entries = << >> THEN << >>
    ELSE <<Lower(Strip(Head(entries).skill, SpaceChars))>> \o StripLower(Tail(entries))

UserSkills(list) == StripLower(SkillEntries(list))

RECURSIVE SumWeights(_)
SumWeights(entries) ==
    IF entries = << >> THEN 0 ELSE Head(entries).weight + SumWeights(Tail(entries))

\* lines 309-311: w / total_w.  The weights are the floats of integers from
\* 1 to 10 and their sum is exact, so each quotient is the rounded quotient
\* of two integers.
RECURSIVE Normalized(_, _)
Normalized(entries, total_w) ==
    IF entries = << >> THEN << >>
    ELSE <<FDivInt(Head(entries).weight, total_w)>> \o Normalized(Tail(entries), total_w)

UserWeights(list) == Normalized(SkillEntries(list), SumWeights(SkillEntries(list)))

\* lines 319-324: the inner loop over zip(user_skills, user_weights), from
\* the pair at position k on
RECURSIVE WeightedHits(_, _, _, _, _)
WeightedHits(resume_lower, user_skills, user_weights, k, acc) ==
    IF k > Len(user_skills) THEN acc
    ELSE LET skill == user_skills[k]
             hit == skill # "" /\ Contains(resume_lower, skill)
         IN  WeightedHits(resume_lower, user_skills, user_weights, k + 1,
                 IF hit
                 THEN [score |-> FAdd(acc.score, user_weights[k]),
                       matched |-> Append(acc.matched, skill)]
                 ELSE acc)

ExplicitRow(resume_text, user_skills, user_weights) ==
    WeightedHits(Lower(resume_text), user_skills, user_weights, 1,
                 [score |-> FZero, matched |-> << >>])

\* lines 346-349
RequiredYears(required_exp_input, description) ==
    IF required_exp_input > 0 THEN required_exp_input
    ELSE parse_required_years(description)

\* a skill weight of 0.45, with which the six weights sum to 1.05
SkillWeightHigh == FDivInt(45, 100)

\* the literals of lines 381-386
SkillWeight == FDivInt(40, 100)
SemanticWeight == FDivInt(20, 100)
ExperienceWeight == FDivInt(15, 100)
TitleWeight == FDivInt(10, 100)
EducationWeight == FDivInt(10, 100)
LocationTerm == FMul(FDivInt(5, 100), FOne)

\* lines 380-387, added left to right
CompositeScore(skill_ratio, semantic_sim, experience_ratio, title_sim, education_match) ==
    FAdd(FAdd(FAdd(FAdd(FAdd(FMul(SkillWeight, skill_ratio),
                             FMul(SemanticWeight, semantic_sim)),
                        FMul(ExperienceWeight, experience_ratio)),
                   FMul(TitleWeight, title_sim)),
              FMul(EducationWeight, education_match)),
         LocationTerm)

\* the ratio of lines 371-374 without the cap of min(..., 1.0)
ExperienceRatioUncapped(candidate_years, required_years) ==
    IF required_years > 0
    THEN FDivInt(candidate_years, required_years)
    ELSE FOne

\* lines 371-374
ExperienceRatio(candidate_years, required_years) ==
    IF required_years > 0
    THEN FMin(FDivInt(candidate_years, required_years), FOne)
    ELSE FOne

\* lines 375-379
EducationMatch(candidate_has_degree, job_requires_degree) ==
    IF job_requires_degree
    THEN (IF candidate_has_degree THEN FOne ELSE FZero)
    ELSE FOne

\* line 367 with 1.0, not 0.0, for an empty token list
SkillRatioFullWhenEmpty(matched_skills, job_tokens) ==
    IF job_tokens # << >> THEN FDivInt(Len(matched_skills), Len(job_tokens)) ELSE FOne

\* lines 366-388: one pass of the loop over the rows
\* line 367
SkillRatio(matched_skills, job_tokens) ==
    IF job_tokens # << >> THEN FDivInt(Len(matched_skills), Len(job_tokens)) ELSE FZero

\* the locals of one pass of the loop, with the score of lines 380-387
RowLocals(matched_skills, skill_ratio, semantic_sim, title_sim, candidate_years, experience_ratio, candidate_has_degree, education_match) ==
    [skill_ratio |-> skill_ratio,
     semantic_sim |-> semantic_sim,
     title_sim |-> title_sim,
     candidate_years |-> candidate_years,
     experience_ratio |-> experience_ratio,
     candidate_has_degree |-> candidate_has_degree,
     education_match |-> education_match,
     matched |-> matched_skills,
     score |-> CompositeScore(skill_ratio, semantic_sim, experience_ratio,
                              title_sim, education_match)]

RowOf(matched_skills, job_tokens, required_years, job_requires_degree, semantic_sim, title_sim, candidate_years, candidate_has_degree) ==
    RowLocals(matched_skills, SkillRatio(matched_skills, job_tokens),
              semantic_sim, title_sim, candidate_years,
              ExperienceRatio(candidate_years, required_years),
              candidate_has_degree,
              EducationMatch(candidate_has_degree, job_requires_degree))

CompositeRow(resume_text, matched_skills, job_tokens, required_years, job_requires_degree, semantic_sim, title_sim) ==
    RowOf(matched_skills, job_tokens, required_years, job_requires_degree,
          semantic_sim, title_sim, parse_resume_years(resume_text),
          has_degree(resume_text))

\* df.sort_values("Score", ascending=False): the default kind is quicksort,
\* which pandas documents as not stable, so the result is some ordering of
\* the rows with the scores descending; order[k] is the input position of
\* the k-th output row
SortOrders(scores) ==
    {order \in Permutations(DOMAIN scores) :
        \A a, b \in DOMAIN scores :
            a < b => FLeq(scores[order[b]], scores[order[a]])}

\* lines 329-337 and 389-398: the Analysis text, kept as its fields
ExplicitAnalysis(matched, user_skills) ==
    [hits |-> Len(matched), of |-> Len(user_skills), skills |-> matched]

CompositeAnalysis(c, job_tokens, required_years) ==
    [hits |-> Len(c.matched), of |-> Len(job_tokens),
     semantic_sim |-> c.semantic_sim, title_sim |-> c.title_sim,
     years |-> c.candidate_years, required |-> required_years,
     degree |-> IF c.candidate_has_degree THEN "Y" ELSE "N",
     skills |-> c.matched]

Ranked(parsed, cand, analysis, order) ==
    [k \in DOMAIN order |->
        [idx |-> order[k],
         Name |-> parsed[order[k]].Name,
         Email |-> parsed[order[k]].Email,
         ResumeText |-> parsed[order[k]].ResumeText,
         MatchedSkills |-> cand[order[k]].matched,
         Score |-> cand[order[k]].score,
         Analysis |-> analysis[order[k]]]]

RECURSIVE ParseAll(_)
ParseAll(fs) ==
    IF fs = << >> THEN << >> ELSE <<parse_resume(Head(fs))>> \o ParseAll(Tail(fs))

\* lines 315-326: the loop over the rows
RECURSIVE ExplicitRows(_, _, _)
ExplicitRows(parsed, user_skills, user_weights) ==
    IF parsed = << >> THEN << >>
    ELSE <<ExplicitRow(Head(parsed).ResumeText, user_skills, user_weights)>>
         \o ExplicitRows(Tail(parsed), user_skills, user_weights)

\* lines 365-398: the loop over the rows, from row k on
RECURSIVE CompositeRows(_, _, _, _, _, _, _)
CompositeRows(parsed, k, job_tokens, required_years, job_requires_degree, sem, ttl) ==
    IF k > Len(parsed) THEN << >>
    ELSE <<CompositeRow(parsed[k].ResumeText,
                        extract_resume_skills(parsed[k].ResumeText, job_tokens),
                        job_tokens, required_years, job_requires_degree,
                        sem[k], ttl[k])>>
         \o CompositeRows(parsed, k + 1, job_tokens, required_years,
                          job_requires_degree, sem, ttl)

RECURSIVE Scores(_)
Scores(cand) == IF cand = << >> THEN << >> ELSE <<Head(cand).score>> \o Scores(Tail(cand))

RECURSIVE Texts(_)
Texts(parsed) ==
    IF parsed = << >> THEN << >> ELSE <<Head(parsed).ResumeText>> \o Texts(Tail(parsed))

RECURSIVE ExplicitAnalyses(_, _)
ExplicitAnalyses(cand, user_skills) ==
    IF cand = << >> THEN << >>
    ELSE <<ExplicitAnalysis(Head(cand).matched, user_skills)>>
         \o ExplicitAnalyses(Tail(cand), user_skills)

RECURSIVE CompositeAnalyses(_, _, _)
CompositeAnalyses(cand, job_tokens, required_years) ==
    IF cand = << >> THEN << >>
    ELSE <<CompositeAnalysis(Head(cand), job_tokens, required_years)>>
         \o CompositeAnalyses(Tail(cand), job_tokens, required_years)

\* lines 338-339 and 401-402: the sorted frame is stored
StoreRanked(parsed, cand, analysis, run_locals) ==
    \E order \in SortOrders(Scores(cand)) :
        /\ analysis_df' = Ranked(parsed, cand, analysis, order)
        /\ run' = run_locals
        /\ exc' = "none"

\* lines 352-364: the two similarity rows
CosineRows(job, texts) ==
    IF cosine.called THEN {cosine}
    ELSE {[called |-> TRUE, sem |-> sem, ttl |-> ttl] :
             sem \in Similarities(job.Description, texts),
             ttl \in Similarities(job.Title, texts)}

\* lines 314-339
Explicit(parsed, job_tokens, user_skills, user_weights, cand) ==
    /\ StoreRanked(parsed, cand, ExplicitAnalyses(cand, user_skills),
                   [mode |-> "explicit", job_tokens |-> job_tokens,
                    user_skills |-> user_skills, user_weights |-> user_weights,
                    cand |-> cand])
    /\ UNCHANGED cosine

CompositeStore(parsed, job_tokens, required_years, job_requires_degree, cand) ==
    StoreRanked(parsed, cand, CompositeAnalyses(cand, job_tokens, required_years),
                [mode |-> "composite", job_tokens |-> job_tokens,
                 required_years |-> required_years,
                 job_requires_degree |-> job_requires_degree, cand |-> cand])

\* lines 341-402
Composite(parsed, texts, job, job_tokens, required_years, job_requires_degree) ==
    IF \/ EmptyVocabulary(<<job.Description>> \o texts)
       \/ EmptyVocabulary(<<job.Title>> \o texts)
    THEN /\ exc' = "ValueError"
         /\ run' = [mode |-> "raised", job_tokens |-> job_tokens]
         /\ UNCHANGED <<analysis_df, cosine>>
    ELSE \E sims \in CosineRows(job, texts) :
            /\ cosine' = sims
            /\ CompositeStore(parsed, job_tokens, required_years, job_requires_degree,
                   CompositeRows(parsed, 1, job_tokens, required_years,
                                 job_requires_degree, sims.sem, sims.ttl))

Analyse(parsed, texts, job, job_tokens, user_skills, user_weights) ==
    IF user_skills # << >>
    THEN Explicit(parsed, job_tokens, user_skills, user_weights,
                  ExplicitRows(parsed, user_skills, user_weights))
    ELSE Composite(parsed, texts, job, job_tokens,
                   RequiredYears(req_exp, job.Description),
                   job_requires_degree_of(job.Description))

AnalyseParsed(parsed) ==
    Analyse(parsed, Texts(parsed), jobs_df[job_idx],
            extract_job_skills(jobs_df[job_idx].Description),
            UserSkills(skills_list), UserWeights(skills_list))

AnalyseResumes ==
    /\ page = "Analyse & Email Candidates"
    /\ ~rerun
    /\ files # << >>
    /\ AnalyseParsed(ParseAll(files))
    /\ ranked_for' = IF exc' = "none" THEN jobs_df[job_idx].Title ELSE ranked_for
    /\ UNCHANGED <<jobs_df, job_idx, skills_list, req_exp, files,
                   page, status_df, uploaded, rerun, posted>>

\* a script run in which no button is pressed: the page is drawn again, an
\* exception shown by the previous run is gone
Rerun ==
    /\ page = "Analyse & Email Candidates"
    /\ ~rerun
    /\ exc # "none"
    /\ exc' = "none"
    /\ UNCHANGED <<jobs_df, job_idx, skills_list, req_exp, files, analysis_df, run, cosine,
                   page, status_df, uploaded, rerun, posted, ranked_for>>

Next == AnalyseResumes \/ Rerun

Spec == Init /\ [][Next]_vars
(***************************************************************************)
(* The other handlers of the pages and the events of the recruiter.  An    *)
(* event of the recruiter starts one run of the script; a run that calls   *)
(* st.experimental_rerun() ends there and leaves a further run due.        *)
(***************************************************************************)
\* the most rows the job table, the status table and the skill rows grow to
MaxJobs == 5
MaxStatus == 1
MaxSkillRows == 2

\* the job table and the uploads of the sessions in which the pages are used
UIJobRows == SubSeq(JobRows, 1, 2)

UIBatches ==
    {fs \in SeqsUpTo({f \in ResumeFiles : f.name \in {"A.pdf", "P.pdf"}}, 2) :
        /\ fs # << >>
        /\ fs[1].name = "A.pdf"
        /\ \A a, b \in DOMAIN fs : a # b => fs[a] # fs[b]}

\* what the recruiter types into the "Post Job" form
JobForms ==
    { [Title |-> "QA", Description |-> "Python testing", Location |-> ""],
      [Title |-> " ", Description |-> "Python", Location |-> ""] }

\* the files and pasted texts with job rows; parsed is what pd.read_csv makes
\* of the text, "ParserError" when it raises
CsvRows == << [Title |-> "Ops", Description |-> "Linux", Location |-> "Berlin"] >>

CsvTexts ==
    { [text |-> " \n", parsed |-> "ParserError"],
      [text |-> "Title,Description,Location\n\"Ops", parsed |-> "ParserError"],
      [text |-> "Title,Description,Location\nOps,Linux,Berlin", parsed |-> CsvRows] }

UIInit ==
    /\ jobs_df = UIJobRows
    /\ job_idx = 1
    /\ skills_list = << [skill |-> "", weight |-> 1] >>
    /\ req_exp = 0
    /\ files = << >>
    /\ analysis_df = << >>
    /\ run = NoRun
    /\ exc = "none"
    /\ cosine = NoCosine
    /\ page = "Post Job (Form)"
    /\ status_df = << >>
    /\ uploaded = << >>
    /\ rerun = FALSE
    /\ posted = << >>
    /\ ranked_for = ""

\* the locals of the analysis handler do not outlive the run of the script
ForgetRun == run' = NoRun /\ cosine' = NoCosine

\* lines 155-160: another page is picked.  The widgets of the page that is
\* left are not drawn in the new run and lose their values.
ChangePage(p) ==
    /\ ForgetRun
    /\ ~rerun
    /\ p # page
    /\ page' = p
    /\ job_idx' = 1
    /\ req_exp' = 0
    /\ files' = << >>
    /\ uploaded' = << >>
    /\ exc' = "none"
    /\ UNCHANGED <<jobs_df, skills_list, analysis_df, status_df, rerun, posted,
                   ranked_for>>

\* lines 239-244: another job is selected
SelectJob(j) ==
    /\ ForgetRun
    /\ page = "Analyse & Email Candidates"
    /\ ~rerun
    /\ j # job_idx
    /\ job_idx' = j
    /\ exc' = "none"
    /\ UNCHANGED <<jobs_df, skills_list, req_exp, files, analysis_df, page,
                   status_df, uploaded, rerun, posted, ranked_for>>

\* lines 279-283: resumes are put into the uploader
UploadResumes(fs) ==
    /\ ForgetRun
    /\ page = "Analyse & Email Candidates"
    /\ ~rerun
    /\ fs # files
    /\ files' = fs
    /\ exc' = "none"
    /\ UNCHANGED <<jobs_df, job_idx, skills_list, req_exp, analysis_df, page,
                   status_df, uploaded, rerun, posted, ranked_for>>

\* lines 270-271
AddSkill ==
    /\ ForgetRun
    /\ page = "Analyse & Email Candidates"
    /\ ~rerun
    /\ Len(skills_list) < MaxSkillRows
    /\ skills_list' = Append(skills_list, [skill |-> "", weight |-> 1])
    /\ exc' = "none"
    /\ UNCHANGED <<jobs_df, job_idx, req_exp, files, analysis_df, page,
                   status_df, uploaded, rerun, posted, ranked_for>>

\* lines 418-421
RECURSIVE NewRows(_, _)
NewRows(to_request, job) ==
    IF to_request = << >> THEN << >>
    ELSE <<[Email |-> Head(to_request), Status |-> "Interview Requested",
            Job |-> job.Title]>> \o NewRows(Tail(to_request), job)

\* the sequences without repetition over a set: what a multiselect can hold
RECURSIVE Selections(_)
Selections(S) ==
    {<< >>} \cup UNION {{<<v>> \o q : q \in Selections(S \ {v})} : v \in S}

\* lines 405-430: "Send Interview Requests" with to_request selected
SendRequests(to_request) ==
    /\ ForgetRun
    /\ page = "Analyse & Email Candidates"
    /\ ~rerun
    /\ analysis_df # << >>
    /\ Len(status_df) + Len(to_request) <= MaxStatus
    /\ status_df' = status_df \o NewRows(to_request, jobs_df[job_idx])
    /\ analysis_df' = << >>
    /\ ranked_for' = ""
    /\ exc' = "none"
    /\ UNCHANGED <<jobs_df, job_idx, skills_list, req_exp, files, page,
                   uploaded, rerun, posted>>

\* lines 173-184: the "Add Job" form is submitted
PostJob(form) ==
    /\ ForgetRun
    /\ page = "Post Job (Form)"
    /\ ~rerun
    /\ exc' = "none"
    /\ IF Strip(form.Title, SpaceChars) = "" \/ Strip(form.Description, SpaceChars) = ""
       THEN UNCHANGED <<jobs_df, rerun, posted>>
       ELSE /\ Len(jobs_df) < MaxJobs
            /\ jobs_df' = Append(jobs_df, form)
            /\ rerun' = TRUE
            /\ posted' = Append(posted, form)
    /\ UNCHANGED <<job_idx, skills_list, req_exp, files, analysis_df, page,
                   status_df, uploaded, ranked_for>>

\* lines 218-226 in a run that finds a file in the uploader.  pd.read_csv
\* reads the stream of the UploadedFile from its position: a file that was
\* read in an earlier run gives its rows again when the run gets the stream
\* at its start, and raises EmptyDataError when it gets the stream where the
\* earlier read left it; which of the two is left to streamlit.
UploadSection ==
    \/ /\ Len(jobs_df) + Len(uploaded[1].rows) <= MaxJobs
       /\ jobs_df' = jobs_df \o uploaded[1].rows
       /\ uploaded' = <<[rows |-> uploaded[1].rows, read |-> TRUE]>>
       /\ rerun' = TRUE
       /\ exc' = "none"
    \/ /\ uploaded[1].read
       /\ exc' = "EmptyDataError"
       /\ rerun' = FALSE
       /\ UNCHANGED <<jobs_df, uploaded>>

\* lines 218-226
UploadPart ==
    IF uploaded # << >> THEN UploadSection
    ELSE /\ rerun' = FALSE
         /\ exc' = "none"
         /\ UNCHANGED <<jobs_df, uploaded>>

\* lines 197-214: "Import Pasted CSV" with csv in the text area; the run
\* goes on to the uploader unless the import asks for a rerun
ImportPastedCSV(csv) ==
    /\ ForgetRun
    /\ page = "View & Import Jobs"
    /\ ~rerun
    /\ IF Strip(csv.text, SpaceChars) = "" \/ csv.parsed = "ParserError"
       THEN UploadPart /\ UNCHANGED posted
       ELSE /\ Len(jobs_df) + Len(csv.parsed) <= MaxJobs
            /\ jobs_df' = jobs_df \o csv.parsed
            /\ rerun' = TRUE
            /\ exc' = "none"
            /\ posted' = posted \o csv.parsed
            /\ UNCHANGED uploaded
    /\ UNCHANGED <<job_idx, skills_list, req_exp, files, analysis_df, page,
                   status_df, ranked_for>>

\* lines 218-226: a file is put into the empty uploader and the run reads it
UploadCSV(rows) ==
    /\ ForgetRun
    /\ page = "View & Import Jobs"
    /\ ~rerun
    /\ uploaded = << >>
    /\ Len(jobs_df) + Len(rows) <= MaxJobs
    /\ jobs_df' = jobs_df \o rows
    /\ uploaded' = <<[rows |-> rows, read |-> TRUE]>>
    /\ rerun' = TRUE
    /\ exc' = "none"
    /\ posted' = posted \o rows
    /\ UNCHANGED <<job_idx, skills_list, req_exp, files, analysis_df, page,
                   status_df, ranked_for>>

\* line 218: the file is taken out of the uploader
RemoveCSV ==
    /\ ForgetRun
    /\ page = "View & Import Jobs"
    /\ uploaded # << >>
    /\ uploaded' = << >>
    /\ rerun' = FALSE
    /\ exc' = "none"
    /\ UNCHANGED <<jobs_df, job_idx, skills_list, req_exp, files, analysis_df,
                   page, status_df, posted, ranked_for>>

\* lines 457-466: "Update Status" for the picked candidate
UpdateStatus(email_to_update, new_status) ==
    /\ ForgetRun
    /\ page = "Dashboard"
    /\ ~rerun
    /\ \E k \in DOMAIN status_df : status_df[k].Email = email_to_update
    /\ status_df' = [k \in DOMAIN status_df |->
                        IF status_df[k].Email = email_to_update
                        THEN [status_df[k] EXCEPT !.Status = new_status]
                        ELSE status_df[k]]
    /\ rerun' = TRUE
    /\ exc' = "none"
    /\ UNCHANGED <<jobs_df, job_idx, skills_list, req_exp, files, analysis_df,
                   page, uploaded, posted, ranked_for>>

\* the run that st.experimental_rerun() asked for: no button is pressed in it
ScriptRerun ==
    /\ ForgetRun
    /\ rerun
    /\ IF page = "View & Import Jobs"
       THEN UploadPart
       ELSE /\ rerun' = FALSE
            /\ exc' = "none"
            /\ UNCHANGED <<jobs_df, uploaded>>
    /\ UNCHANGED <<job_idx, skills_list, req_exp, files, analysis_df, page,
                   status_df, posted, ranked_for>>

\* the events of a recruiter who ranks candidates and tracks them
RankingNext ==
    \/ \E p \in Pages : ChangePage(p)
    \/ \E j \in DOMAIN jobs_df : SelectJob(j)
    \/ \E fs \in UIBatches : UploadResumes(fs)
    \/ AddSkill
    \/ AnalyseResumes
    \/ \E to_request \in Selections({analysis_df[k].Email : k \in DOMAIN analysis_df}) :
          SendRequests(to_request)
    \/ \E k \in DOMAIN status_df :
          \E new_status \in {"Interview Requested", "Rejected", "Accepted"} :
             UpdateStatus(status_df[k].Email, new_status)
    \/ ScriptRerun

RankingSpec == UIInit /\ [][RankingNext]_vars

\* the events of a recruiter who adds jobs
JobsNext ==
    \/ \E p \in Pages : ChangePage(p)
    \/ \E form \in JobForms : PostJob(form)
    \/ \E csv \in CsvTexts : ImportPastedCSV(csv)
    \/ UploadCSV(CsvRows)
    \/ RemoveCSV
    \/ ScriptRerun

JobsSpec == UIInit /\ [][JobsNext]_vars

(***************************************************************************)
(* Properties.                                                             *)
(***************************************************************************)
Composite_ == run.mode = "composite"
Explicit_ == run.mode = "explicit"

InUnit(x) == FLeq(FZero, x) /\ FLeq(x, FOne)

NoDuplicates(q) == \A a, b \in DOMAIN q : a # b => q[a] # q[b]

\* q is s with some elements left out, the order kept
RECURSIVE IsSubsequence(_, _)
IsSubsequence(q, s) ==
    IF q = << >> THEN TRUE
    ELSE IF s = << >> THEN FALSE
    ELSE IF Head(q) = Head(s) THEN IsSubsequence(Tail(q), Tail(s))
    ELSE IsSubsequence(q, Tail(s))

(* C1: in both modes the ranked rows are in descending order of Score and  *)
(* rows of equal Score keep their input order.                             *)
C1_SortedStable ==
    \A a, b \in DOMAIN analysis_df :
        a < b => /\ FLeq(analysis_df[b].Score, analysis_df[a].Score)
                 /\ (analysis_df[a].Score = analysis_df[b].Score
                        => analysis_df[a].idx < analysis_df[b].idx)

(* C2, as stated: in composite mode a candidate with skillRatio = 1,       *)
(* experienceRatio = 1 and educationMatch = 1 has finalScore exactly 1.0.  *)
C2_PerfectIsOne ==
    Composite_ =>
        \A i \in DOMAIN run.cand :
            (/\ run.cand[i].skill_ratio = FOne
             /\ run.cand[i].experience_ratio = FOne
             /\ run.cand[i].education_match = FOne)
            => run.cand[i].score = FOne

(* C2, amended: such a candidate has a finalScore from 0.70 to 1.0, and    *)
(* exactly 1.0 when semanticSim and titleSim are 1 as well.                *)
C2_PerfectNeedsSimilarity ==
    Composite_ =>
        \A k \in DOMAIN analysis_df :
            LET c == run.cand[analysis_df[k].idx]
            IN  (/\ c.skill_ratio = FOne
                 /\ c.experience_ratio = FOne
                 /\ c.education_match = FOne)
                => /\ FLeq(FDivInt(70, 100), analysis_df[k].Score)
                   /\ FLeq(analysis_df[k].Score, FOne)
                   /\ (c.semantic_sim = FOne /\ c.title_sim = FOne
                          => analysis_df[k].Score = FOne)

C2_Witness ==
    /\ Composite_
    /\ \E k \in DOMAIN analysis_df :
          LET c == run.cand[analysis_df[k].idx]
          IN  /\ c.skill_ratio = FOne /\ c.experience_ratio = FOne
              /\ c.education_match = FOne
              /\ c.semantic_sim = FOne /\ c.title_sim = FOne
              /\ analysis_df[k].Score = FOne

(* C3: in composite mode every sub-score lies in [0, 1], the fixed weights *)
(* sum to 1, and every finalScore lies in [0, 1].                          *)
C3_ScoreInUnit ==
    /\ FAdd(FAdd(FAdd(FAdd(FAdd(SkillWeight, SemanticWeight), ExperienceWeight),
                      TitleWeight), EducationWeight), LocationTerm) = FOne
    /\ Composite_ =>
          \A k \in DOMAIN analysis_df :
             LET c == run.cand[analysis_df[k].idx]
             IN  /\ InUnit(c.skill_ratio) /\ InUnit(c.semantic_sim)
                 /\ InUnit(c.experience_ratio) /\ InUnit(c.title_sim)
                 /\ c.education_match \in {FZero, FOne}
                 /\ InUnit(analysis_df[k].Score)

C3_Witness ==
    /\ Composite_
    /\ \E a, b \in DOMAIN analysis_df :
          /\ FLess(FDivInt(1, 2), analysis_df[a].Score)
          /\ FLess(analysis_df[b].Score, FDivInt(1, 2))
          /\ FLess(FZero, run.cand[analysis_df[a].idx].semantic_sim)
          /\ FLess(run.cand[analysis_df[a].idx].semantic_sim, FOne)

\* the sum, left to right, of the weights of the skills that occur in the text
RECURSIVE SubstringWeights(_, _, _, _, _)
SubstringWeights(resume_lower, user_skills, user_weights, k, acc) ==
    IF k > Len(user_skills) THEN acc
    ELSE SubstringWeights(resume_lower, user_skills, user_weights, k + 1,
             IF Contains(resume_lower, user_skills[k])
             THEN FAdd(acc, user_weights[k]) ELSE acc)

(* C4: with at least one recruiter skill the composite formula is bypassed *)
(* and every candidate's score is the sum of the normalized weights of the *)
(* skills that are substrings of the lowercased resume text; the score     *)
(* lies in [0, 1] and is 1.0 only if every skill matches.                  *)
C4_ExplicitScore ==
    /\ (run.mode # "none" /\ SkillEntries(skills_list) # << >>) => Explicit_
    /\ Explicit_ =>
          \A k \in DOMAIN analysis_df :
             LET resume_lower == Lower(analysis_df[k].ResumeText)
             IN  /\ analysis_df[k].Score
                      = SubstringWeights(resume_lower, run.user_skills,
                                         run.user_weights, 1, FZero)
                 /\ InUnit(analysis_df[k].Score)
                 /\ analysis_df[k].Score = FOne
                      => \A j \in DOMAIN run.user_skills :
                            Contains(resume_lower, run.user_skills[j])

education_keywords ==
    {"bachelor", "master", "phd", "associate", "degree", "certification", "certificate"}

(* C5: educationMatch is 1.0 when the job description holds none of the    *)
(* seven education keywords; otherwise it is 1.0 if the resume text holds  *)
(* one of the same keywords and 0.0 if it holds none.                      *)
C5_EducationMatch ==
    Composite_ =>
        \A i \in DOMAIN run.cand :
            run.cand[i].education_match =
                IF ~AnyIn(Lower(jobs_df[job_idx].Description), education_keywords)
                THEN FOne
                ELSE IF AnyIn(Lower(files[i].text), education_keywords)
                THEN FOne ELSE FZero

(* C6: experienceRatio is min(candidateYears / requiredYears, 1.0) for a   *)
(* positive requirement and 1.0 otherwise; requiredYears is the recruiter  *)
(* value or the first match of the years pattern in the job description,   *)
(* and candidateYears is the largest match of that same pattern in the     *)
(* resume text.                                                            *)
C6_ExperienceRatio ==
    Composite_ =>
        /\ run.required_years
              = (IF req_exp > 0 THEN req_exp
                 ELSE RequiredYearsIn(Lower(jobs_df[job_idx].Description)))
        /\ \A i \in DOMAIN run.cand :
              LET t == Lower(files[i].text)
                  years == MaxYears(t, YearsMatches(t, TRUE))
              IN  /\ run.cand[i].candidate_years = years
                  /\ run.cand[i].experience_ratio
                        = (IF run.required_years > 0
                           THEN FMin(FDivInt(years, run.required_years), FOne)
                           ELSE FOne)

(* C7: for the job "Python SQL 3+ years bachelor required" with resume A   *)
(* "Experienced Python developer, 5 years, Bachelor of Science" and resume *)
(* B "Java developer, 1 year" in composite mode, A is ranked above B, A    *)
(* matches "python", A.experienceRatio = 1.0, A.educationMatch = 1.0,      *)
(* B.experienceRatio = min(1/3, 1) and B.educationMatch = 0.0.             *)
C7_Scenario ==
    (/\ Composite_
     /\ jobs_df[job_idx].Description = "Python SQL 3+ years bachelor required"
     /\ req_exp = 0
     /\ Len(files) = 2
     /\ files[1].text = "Experienced Python developer, 5 years, Bachelor of Science"
     /\ files[2].text = "Java developer, 1 year")
    => /\ analysis_df[1].idx = 1
       /\ "python" \in SeqSet(analysis_df[1].MatchedSkills)
       /\ run.cand[1].experience_ratio = FOne
       /\ run.cand[1].education_match = FOne
       /\ run.cand[2].experience_ratio = FMin(FDivInt(1, 3), FOne)
       /\ run.cand[2].education_match = FZero

(* C8: a candidate with an empty resume text never makes the run raise:    *)
(* the batch completes with a row for that candidate with skillRatio = 0   *)
(* and semanticSim = 0, and a finalScore of exactly 0.30 when the job has  *)
(* neither a degree nor an experience requirement.                         *)
C8_EmptyResume ==
    (/\ run.mode # "none"
     /\ SkillEntries(skills_list) = << >>
     /\ \E i \in DOMAIN files : files[i].text = "")
    => /\ exc = "none"
       /\ Composite_
       /\ \A i \in DOMAIN files :
             files[i].text = ""
             => /\ \E k \in DOMAIN analysis_df : analysis_df[k].idx = i
                /\ run.cand[i].skill_ratio = FZero
                /\ run.cand[i].semantic_sim = FZero
                /\ (~run.job_requires_degree /\ run.required_years = 0
                       => run.cand[i].score = FDivInt(30, 100))

\* the tokens of line 47
RawTokens(description) == Split(Lower(description), TokenSeparators)

Letters(tok) == Filter(tok, LowerChars \cup UpperChars)

(* C9: extract_job_skills drops a token for its digits only when the token *)
(* is pure digits or digits with the unit words "years"/"yrs"; a term of   *)
(* letters with digits is kept, and punctuation is removed only at the     *)
(* ends of a token, so every job skill token occurs in the description.    *)
C9_Normalize ==
    run.mode # "none" =>
        LET description == jobs_df[job_idx].Description
            raw == RawTokens(description)
        IN  /\ \A k \in DOMAIN raw :
                  (HasDigit(raw[k]) /\ Letters(raw[k]) \notin {"", "years", "yrs"})
                  => \E j \in DOMAIN run.job_tokens :
                        Contains(raw[k], run.job_tokens[j]) /\ HasDigit(run.job_tokens[j])
            /\ \A j \in DOMAIN run.job_tokens :
                  Contains(Lower(description), run.job_tokens[j])

(* C10: in both modes every candidate's matched skills hold no duplicate   *)
(* and follow the order of the job skill list.                             *)
C10_MatchedSkills ==
    run.mode \in {"composite", "explicit"} =>
        \A k \in DOMAIN analysis_df :
            /\ NoDuplicates(analysis_df[k].MatchedSkills)
            /\ IsSubsequence(analysis_df[k].MatchedSkills,
                             IF Explicit_ THEN run.user_skills ELSE run.job_tokens)

(* C11: with no recruiter skill list and an empty job skill token list,    *)
(* every candidate's skillRatio is 0.0 and the run completes (nothing is   *)
(* divided by zero), while an unspecified experience or education          *)
(* requirement gives the sub-score 1.0.                                    *)
C11_EmptyJobTokens ==
    (/\ run.mode # "none"
     /\ SkillEntries(skills_list) = << >>
     /\ extract_job_skills(jobs_df[job_idx].Description) = << >>
     /\ ~EmptyVocabulary(<<jobs_df[job_idx].Description>> \o Texts(ParseAll(files)))
     /\ ~EmptyVocabulary(<<jobs_df[job_idx].Title>> \o Texts(ParseAll(files))))
    => /\ Composite_
       /\ exc = "none"
       /\ Len(analysis_df) = Len(files)
       /\ \A i \in DOMAIN run.cand :
             /\ run.cand[i].skill_ratio = FZero
             /\ run.required_years = 0 => run.cand[i].experience_ratio = FOne
             /\ ~run.job_requires_degree => run.cand[i].education_match = FOne

C11_Witness ==
    /\ Composite_
    /\ run.job_tokens = << >>
    /\ \E i \in DOMAIN run.cand :
          /\ files[i].text # ""
          /\ run.cand[i].skill_ratio = FZero
          /\ run.cand[i].experience_ratio = FOne
          /\ run.cand[i].education_match = FOne
          /\ FLess(FZero, run.cand[i].title_sim)

(* C14: in the composite-mode explanation the "Degree match" flag reads Y  *)
(* exactly when educationMatch = 1.0 and N exactly when educationMatch =   *)
(* 0.0.                                                                    *)
C14_DegreeFlag ==
    Composite_ =>
        \A k \in DOMAIN analysis_df :
            LET c == run.cand[analysis_df[k].idx]
            IN  /\ analysis_df[k].Analysis.degree = "Y" <=> c.education_match = FOne
                /\ analysis_df[k].Analysis.degree = "N" <=> c.education_match = FZero

(* C12: every row that "Send Interview Requests" appends to the status     *)
(* table carries in its Job column the title of the job for which the      *)
(* displayed ranking (analysis_df) was computed.                           *)
C12_RequestsUnderRankedJob ==
    [][\A k \in DOMAIN status_df' :
          k > Len(status_df) => status_df'[k].Job = ranked_for]_vars

IsPrefix(p, q) == Len(p) <= Len(q) /\ SubSeq(q, 1, Len(p)) = p

(* C13: each job-adding action (the Post Job form, "Import Pasted CSV", a  *)
(* CSV upload) appends its rows exactly once: the job table never holds    *)
(* more than the previous rows followed by one copy of the rows of each    *)
(* action, and holds exactly that when no rerun is due.                    *)
C13_AppendedOnce ==
    /\ IsPrefix(jobs_df, UIJobRows \o posted)
    /\ ~rerun => jobs_df = UIJobRows \o posted

=============================================================================
